---- MODULE Spec2Model ----
(***************************************************************************)
(* Model of the esp8266-rtos-softserial driver (softserial.c/softserial.h):*)
(* the RX ring buffer shared by the RX interrupt (producer) and the task   *)
(* side API (consumer), the line reader built on it, and the process-wide  *)
(* pin registry used by softserial_init.                                   *)
(*                                                                         *)
(* The ESP8266 has one core: the ISR runs to completion and can preempt    *)
(* the task between any two of its accesses to the volatile buffer fields, *)
(* the task never preempts the ISR.  The ISR is therefore one action and   *)
(* every task-side function is split at its accesses to shared fields.     *)
(*                                                                         *)
(* The transmit side (softserial_putchar, softserial_puts) and the ISR at  *)
(* the grain of its pin accesses, delays and clock reads are modelled on a *)
(* wire between a sending and a receiving instance (SpecWire, SpecClock,   *)
(* SpecLoop).                                                              *)
(***************************************************************************)
EXTENDS Integers, Sequences, FiniteSets, TLC

\* ------------------------------------------------------------ constants
N == 64
LF == 10
UINT16_MOD == 65536

\* Feature bits (softserial_features_t)
SOFTSERIAL_USE_RX == 1
SOFTSERIAL_USE_TX == 2
SOFTSERIAL_USE_RS485 == 4

\* ------------------------------------------------------------ bounds
\* Frames the line delivers after the initial state (Spec).
MaxRx == 3
\* Frames beyond the ring capacity N-1 the line delivers (SpecRing).
RingExtra == 2
\* Distance of the pre-filled / pre-advanced starting states from N.
Gap == 2
\* Largest max_len passed to softserial_read / softserial_readline.
MaxLen == 3
\* Largest value of the masked microsecond clock, which then wraps to 0.  The
\* source masks with 2^63 - 1 (line 12); the model keeps the mask and the
\* wrap-around on a clock that is a few frames long.
TMAX == 39
\* Calls of softserial_putchar / softserial_puts in one run.
TxCalls == 1
\* Noise spikes on the line in one run.
MaxGlitch == 1

\* Byte streams put on the RX line by the remote sender (repeated cyclically).
Lines == { <<65, 66, 10, 67, 68>>, <<10, 10, 65>> }

VARIABLES
    \* softserial_buffer_t
    data, head, tail, overrun,
    \* notification target of the instance (softserial.event_group, .rx_event)
    event_group, rx_event,
    \* RX pin interrupt type and the bits set in the event group
    intr_type, event_bits,
    \* environment: the line's byte stream, frames already delivered, frames left
    line, wire, rxleft,
    \* history: bytes stored by the ISR, bytes returned by getc on a non-empty
    \* buffer, an overflow event happened since the flag was last read as set
    \* (ovfPending) / since softserial_overrun last read the flag (ovfNew)
    stored, popped, ovfPending, ovfNew,
    \* task context: running API call, position, locals and return value
    op, pc, maxlen, len, out, d, ret, rv,
    \* history snapshots taken when the running call started, and whether the
    \* previous call was a read / readline that returned the overrun error
    npop0, nst0, ovf0, prevErr,
    \* process-wide registry: claimed pins, instance counter, pins with a handler
    used_pins, numinstances, handlers,
    \* softserial_init call: position, the struct passed, result, bit_time stored
    ipc, icfg, iret, bit_time,
    \* history: registry before the running init, and for each pin the number
    \* of successfully initialised instances it was claimed for
    used0, ninst0, owners,
    \* the masked microsecond clock, the levels driven on the output pins, and
    \* history: some gpio_set_level has failed
    now, gpio, gpio_failed,
    \* transmitting task: running call (putchar / puts), position, the string
    \* and index of puts, putchar's data, i, start_time, the rest of its delay,
    \* putchar's and the call's return value, calls left
    top, tpc, tstr, tk, tch, ti, tstart, tdelay, pret, tret, tcalls,
    \* history of the running call: every gpio_set_level as <<pin, level,
    \* answer>>, where the running putchar's writes begin, the bytes whose
    \* putchar returned ESP_OK, ticks the running putchar spent in its delay
    twrites, tmark, sent, tguard,
    \* the build wraps an overflowing int64_t sum (or assumes it cannot happen),
    \* the platform may answer gpio_set_level with an error
    sumwraps, faulty,
    \* receiver: latched RX edge, noise spikes left, position of the ISR, its
    \* i, start_time, data, the rest of its delay, and what this invocation did
    pending, glitches, jpc, ji, jstart, jdata, jdelay, jlog

ringVars == <<data, head, tail, overrun>>
isrVars  == <<event_group, rx_event, intr_type, event_bits>>
envVars  == <<line, wire, rxleft>>
histVars == <<stored, popped, ovfPending, ovfNew>>
taskVars == <<op, pc, maxlen, len, out, d, ret, rv, npop0, nst0, ovf0, prevErr>>
pinVars  == <<used_pins, numinstances, handlers, ipc, icfg, iret, bit_time,
              used0, ninst0, owners>>
txVars   == <<gpio, gpio_failed, top, tpc, tstr, tk, tch, ti, tstart, tdelay, pret,
              tret, tcalls, twrites, tmark, sent, tguard, sumwraps, faulty>>
rxVars   == <<pending, glitches, jpc, ji, jstart, jdata, jdelay, jlog>>
wireVars == <<now, txVars, rxVars>>
vars == <<ringVars, isrVars, envVars, histVars, taskVars, pinVars, wireVars>>

\* ------------------------------------------------------------ helpers
ByteAt(ln, k) == ln[(k % Len(ln)) + 1]

\* Bit i of byte b as the line level during data bit i (LSB first).
FrameLevel(b, i) == (b \div (2 ^ i)) % 2

\* softserial_isr, the sampling loop: data >>= 1; if (level) data |= 0x80.
RECURSIVE SampleBits(_, _, _)
SampleBits(b, i, acc) ==
    IF i = 8 THEN acc
    ELSE SampleBits(b, i + 1, (acc \div 2) + (IF FrameLevel(b, i) # 0 THEN 128 ELSE 0))

\* Mutant: (tail - head) % N without the + N, returned as uint8_t.
Available_NoBias(h, t) == IF t >= h THEN (t - h) % N ELSE 256 - ((h - t) % N)

\* softserial_available: (tail + N - head) % N
Available(h, t) == (t + N - h) % N

\* The queued bytes, oldest first.
Queue == [i \in 1..Available(head, tail) |-> data[(head + i - 1) % N]]

\* ------------------------------------------------------------ RX interrupt
\* Mutant: a full ring overwrites its oldest byte instead of dropping the new one.
IsrPush_Overwrite(byte) ==
    LET next == (tail + 1) % N IN
    /\ data' = [data EXCEPT ![tail] = byte]
    /\ tail' = next
    /\ stored' = Append(stored, byte)
    /\ IF next # head
       THEN UNCHANGED <<head, overrun, popped, ovfPending, ovfNew>>
       ELSE /\ overrun' = 1 /\ ovfPending' = TRUE /\ ovfNew' = TRUE
            /\ UNCHANGED <<head, popped>>

\* Mutant: after an overrun nothing is stored until the flag was cleared.
IsrPush_UntilCleared(byte) ==
    LET next == (tail + 1) % N IN
    IF next # head /\ overrun = 0
    THEN /\ data' = [data EXCEPT ![tail] = byte]
         /\ tail' = next
         /\ stored' = Append(stored, byte)
         /\ UNCHANGED <<head, overrun, popped, ovfPending, ovfNew>>
    ELSE /\ overrun' = 1
         /\ ovfPending' = TRUE
         /\ ovfNew' = TRUE
         /\ UNCHANGED <<data, head, tail, stored, popped>>

\* softserial_isr, lines 76-85: store the byte at tail unless the ring is full.
IsrPush(byte) ==
    LET next == (tail + 1) % N IN
    IF next # head
    THEN /\ data' = [data EXCEPT ![tail] = byte]
         /\ tail' = next
         /\ stored' = Append(stored, byte)
         /\ UNCHANGED <<head, overrun, popped, ovfPending, ovfNew>>
    ELSE /\ overrun' = 1
         /\ ovfPending' = TRUE
         /\ ovfNew' = TRUE
         /\ UNCHANGED <<data, head, tail, stored, popped>>

\* Mutant: every decoded byte signals the event group.
IsrNotify_AnyByte(byte) ==
    IF event_group /\ rx_event # 0
    THEN event_bits' = rx_event
    ELSE UNCHANGED event_bits

\* softserial_isr, lines 88-97: signal the event group on a line feed.
IsrNotify(byte) ==
    IF byte = LF /\ event_group /\ rx_event # 0
    THEN event_bits' = rx_event
    ELSE UNCHANGED event_bits

\* softserial_isr as a whole: it runs with the pin's interrupt disabled from
\* entry to exit and cannot be preempted by the task.  level is the pin level
\* read at entry: high is the noise exit, low starts the decode of the next
\* frame on the line.
Isr ==
    /\ intr_type = "NEGEDGE"
    /\ \E level \in {0, 1} :
        IF level # 0
        THEN UNCHANGED <<ringVars, histVars, event_bits, wire, rxleft>>
        ELSE /\ rxleft > 0
             /\ LET byte == SampleBits(ByteAt(line, wire), 0, 0) IN
                  /\ IsrPush(byte)
                  /\ IsrNotify(byte)
             /\ wire' = wire + 1
             /\ rxleft' = rxleft - 1
    /\ intr_type' = "NEGEDGE"
    /\ UNCHANGED <<event_group, rx_event, line, taskVars, pinVars, wireVars>>

\* ------------------------------------------------------------ task side
CheckLf == op = "readline"

\* read_internal, lines 326-329: terminate the string and return len.
ReadTerminate ==
    /\ out' = Append(out, 0)
    /\ rv' = len
    /\ pc' = "done"
    /\ UNCHANGED len

\* read_internal, line 318: len < maxlen - 1 in size_t arithmetic.  For
\* maxlen = 0 the subtraction wraps to SIZE_MAX, which no len reaches.
BelowLimit(l, m) == IF m = 0 THEN TRUE ELSE l < m - 1

\* Mutant: the line feed that ends a line is stored like any other byte.
ReadByte_KeepLf(ch) ==
    IF ~BelowLimit(len, maxlen)
    THEN ReadTerminate
    ELSE IF CheckLf /\ ch = LF
         THEN /\ out' = Append(Append(out, ch), 0)
              /\ len' = len + 1
              /\ rv' = len + 1
              /\ pc' = "done"
         ELSE /\ out' = Append(out, ch)
              /\ len' = len + 1
              /\ pc' = "avail"
              /\ UNCHANGED rv

\* read_internal, lines 315-324: what the loop does with the byte getc gave.
ReadByte(ch) ==
    IF CheckLf /\ ch = LF
    THEN ReadTerminate
    ELSE IF BelowLimit(len, maxlen)
         THEN /\ out' = Append(out, ch)
              /\ len' = len + 1
              /\ pc' = "avail"
              /\ UNCHANGED rv
         ELSE ReadTerminate

\* Return of softserial_getc to its caller: the application or read_internal.
GetcReturn(v) ==
    IF op = "getc"
    THEN /\ rv' = v
         /\ pc' = "done"
         /\ UNCHANGED <<len, out>>
    ELSE ReadByte(v)

\* Return of softserial_overrun to its caller (read_internal, lines 308-310).
OvrReturn(r) ==
    IF op = "overrun"
    THEN /\ rv' = r
         /\ pc' = "done"
    ELSE IF r # 0
         THEN /\ rv' = -1
              /\ pc' = "done"
         ELSE /\ pc' = "avail"
              /\ UNCHANGED rv

\* softserial_getc, line 201: the empty test.
GetcChk ==
    /\ pc = "getc_chk"
    /\ IF head = tail
       THEN GetcReturn(0)
       ELSE /\ pc' = "getc_load"
            /\ UNCHANGED <<rv, len, out>>
    /\ UNCHANGED <<ringVars, isrVars, envVars, pinVars, wireVars, histVars>>
    /\ UNCHANGED <<op, maxlen, d, ret, npop0, nst0, ovf0, prevErr>>

\* Mutant: the byte is fetched after the index was advanced.
GetcLoad_AfterAdvance ==
    /\ pc = "getc_load"
    /\ d' = data[(head + 1) % N]
    /\ pc' = "getc_adv"
    /\ UNCHANGED <<ringVars, isrVars, envVars, pinVars, wireVars, histVars>>
    /\ UNCHANGED <<op, maxlen, len, out, ret, rv, npop0, nst0, ovf0, prevErr>>

\* softserial_getc, line 206: d = data[head].
GetcLoad ==
    /\ pc = "getc_load"
    /\ d' = data[head]
    /\ pc' = "getc_adv"
    /\ UNCHANGED <<ringVars, isrVars, envVars, pinVars, wireVars, histVars>>
    /\ UNCHANGED <<op, maxlen, len, out, ret, rv, npop0, nst0, ovf0, prevErr>>

\* softserial_getc, lines 207-208: advance head and return d.
GetcAdv ==
    /\ pc = "getc_adv"
    /\ head' = (head + 1) % N
    /\ popped' = Append(popped, d)
    /\ GetcReturn(d)
    /\ UNCHANGED <<data, tail, overrun, stored, ovfPending, ovfNew, isrVars, envVars, pinVars, wireVars>>
    /\ UNCHANGED <<op, maxlen, d, ret, npop0, nst0, ovf0, prevErr>>

\* softserial_available, line 214 (and the loop test of read_internal, line 312).
Avail ==
    /\ pc = "avail"
    /\ LET av == Available(head, tail) IN
         IF op = "available"
         THEN /\ rv' = av
              /\ pc' = "done"
              /\ UNCHANGED <<len, out>>
         ELSE IF av # 0
              THEN /\ pc' = "getc_chk"
                   /\ UNCHANGED <<rv, len, out>>
              ELSE ReadTerminate
    /\ UNCHANGED <<ringVars, isrVars, envVars, pinVars, wireVars, histVars>>
    /\ UNCHANGED <<op, maxlen, d, ret, npop0, nst0, ovf0, prevErr>>

\* Mutant: the flag is read but its value is never looked at again (ret stays 0).
OvrRead_Stale ==
    /\ pc = "ovr_read"
    /\ ret' = 0
    /\ ovfPending' = (IF overrun # 0 THEN FALSE ELSE ovfPending)
    /\ ovfNew' = FALSE
    /\ OvrReturn(0)
    /\ UNCHANGED <<ringVars, isrVars, envVars, pinVars, wireVars, stored, popped>>
    /\ UNCHANGED <<op, maxlen, len, out, d, npop0, nst0, ovf0, prevErr>>

\* softserial_overrun, line 297: ret = s->buffer.overrun.
OvrRead ==
    /\ pc = "ovr_read"
    /\ ret' = overrun
    /\ ovfPending' = (IF overrun # 0 THEN FALSE ELSE ovfPending)
    /\ ovfNew' = FALSE
    /\ IF overrun # 0
       THEN /\ pc' = "ovr_clear"
            /\ UNCHANGED rv
       ELSE OvrReturn(0)
    /\ UNCHANGED <<ringVars, isrVars, envVars, pinVars, wireVars, stored, popped>>
    /\ UNCHANGED <<op, maxlen, len, out, d, npop0, nst0, ovf0, prevErr>>

\* Mutant: the flag is reported but never reset.
OvrClear_NoReset ==
    /\ pc = "ovr_clear"
    /\ overrun' = overrun
    /\ OvrReturn(ret)
    /\ UNCHANGED <<data, head, tail, isrVars, envVars, pinVars, wireVars, histVars>>
    /\ UNCHANGED <<op, maxlen, len, out, d, ret, npop0, nst0, ovf0, prevErr>>

\* softserial_overrun, lines 298-301: if (ret) overrun = 0; return ret.
OvrClear ==
    /\ pc = "ovr_clear"
    /\ overrun' = 0
    /\ OvrReturn(ret)
    /\ UNCHANGED <<data, head, tail, isrVars, envVars, pinVars, wireVars, histVars>>
    /\ UNCHANGED <<op, maxlen, len, out, d, ret, npop0, nst0, ovf0, prevErr>>

\* The application calls one API function from the idle task.
Call(o, m, first) ==
    /\ pc = "idle"
    /\ op' = o
    /\ pc' = first
    /\ maxlen' = m
    /\ npop0' = Len(popped)
    /\ nst0' = Len(stored)
    /\ ovf0' = ovfNew
    /\ UNCHANGED <<ringVars, isrVars, envVars, pinVars, wireVars, histVars, len, out, d, ret, rv, prevErr>>

CallGetc == Call("getc", 0, "getc_chk")
CallAvailable == Call("available", 0, "avail")
CallOverrun == Call("overrun", 0, "ovr_read")
CallRead == \E m \in 0..MaxLen : Call("read", m, "ovr_read")
CallReadline == \E m \in 0..MaxLen : Call("readline", m, "ovr_read")

\* The call has returned; its locals die.
Return ==
    /\ pc = "done"
    /\ pc' = "idle"
    /\ op' = "none"
    /\ maxlen' = 0 /\ len' = 0 /\ out' = <<>> /\ d' = 0 /\ ret' = 0 /\ rv' = 0
    /\ npop0' = 0 /\ nst0' = 0 /\ ovf0' = FALSE
    /\ prevErr' = (op \in {"read", "readline"} /\ rv = -1)
    /\ UNCHANGED <<ringVars, isrVars, envVars, pinVars, wireVars, histVars>>

\* ------------------------------------------------------------ softserial_init
\* GPIO numbers, platform answers and settings offered to softserial_init.
Pins == {2, 4, 5, 12}
\* <<gpio_install_isr_service, gpio_config(tx), gpio_config(rx), gpio_isr_handler_add>>
Platforms == { <<"ESP_OK", "ESP_OK", "ESP_OK", "ESP_OK">>,
               <<"ESP_ERR_INVALID_STATE", "ESP_OK", "ESP_OK", "ESP_OK">>,
               <<"ESP_ERR_NO_MEM", "ESP_OK", "ESP_OK", "ESP_OK">>,
               <<"ESP_OK", "ESP_ERR_INVALID_ARG", "ESP_OK", "ESP_OK">>,
               <<"ESP_OK", "ESP_OK", "ESP_ERR_INVALID_ARG", "ESP_OK">>,
               <<"ESP_OK", "ESP_OK", "ESP_OK", "ESP_ERR_INVALID_STATE">> }
Features == { SOFTSERIAL_USE_RX,
              SOFTSERIAL_USE_RX + SOFTSERIAL_USE_TX,
              SOFTSERIAL_USE_TX + SOFTSERIAL_USE_RS485,
              SOFTSERIAL_USE_RX + SOFTSERIAL_USE_TX + SOFTSERIAL_USE_RS485 }
Bauds == {0, 15, 9600, 115200}
NoCfg == [features |-> 0, baudrate |-> 0, rx_pin |-> 0, tx_pin |-> 0, rs485_pin |-> 0]

HasFeature(f, bit) == (f \div bit) % 2 = 1

\* A pin bit mask (1ULL << pin, or-ed) is the set of its bit positions.
PinBit(p) == {p}

\* Mutant: the RX pin is not looked up in the registry.
CheckPins_NoRxLookup(out_pbm, in_pbm, used) ==
    IF in_pbm \cap out_pbm # {} THEN [ret |-> "ESP_ERR_INVALID_ARG", used |-> used]
    ELSE IF used \cap out_pbm # {} THEN [ret |-> "ESP_ERR_INVALID_ARG", used |-> used]
    ELSE [ret |-> "ESP_OK", used |-> used \cup in_pbm \cup out_pbm]

\* check_pins: the result and the registry it leaves.
CheckPins(out_pbm, in_pbm, used) ==
    IF in_pbm \cap out_pbm # {} THEN [ret |-> "ESP_ERR_INVALID_ARG", used |-> used]
    ELSE IF used \cap out_pbm # {} THEN [ret |-> "ESP_ERR_INVALID_ARG", used |-> used]
    ELSE IF used \cap in_pbm # {} THEN [ret |-> "ESP_ERR_INVALID_ARG", used |-> used]
    ELSE [ret |-> "ESP_OK", used |-> used \cup in_pbm \cup out_pbm]

\* softserial_init, lines 108-124: the masks handed to check_pins.
TxMask(cfg) ==
    PinBit(cfg.tx_pin) \cup
    (IF HasFeature(cfg.features, SOFTSERIAL_USE_RS485) THEN PinBit(cfg.rs485_pin) ELSE {})
RxMask(cfg) == PinBit(cfg.rx_pin)

\* softserial_init, lines 136-139: the value left in the uint16_t bit_time.
BitTime(baud) ==
    LET bt == (1000000 \div baud) % UINT16_MOD IN
    IF ((100000000 \div baud) - (100 * bt)) > 50 THEN (bt + 1) % UINT16_MOD ELSE bt

\* softserial_init, lines 125-193.  svc, txc, rxc and add are what the platform
\* answers to gpio_install_isr_service, the two gpio_config calls and
\* gpio_isr_handler_add.  The result names the return value and the state left.
InitOutcome(cfg, svc, txc, rxc, add) ==
    LET chk == CheckPins(TxMask(cfg), RxMask(cfg), used_pins)
        same == [ret |-> chk.ret, used |-> chk.used, ninst |-> numinstances,
                 bt |-> bit_time, hs |-> handlers]
    IN  IF chk.ret # "ESP_OK" THEN same
        ELSE IF cfg.baudrate <= 0 THEN [same EXCEPT !.ret = "ESP_ERR_INVALID_ARG"]
        ELSE LET timed == [same EXCEPT !.bt = BitTime(cfg.baudrate)] IN
             IF numinstances = 0 /\ svc \notin {"ESP_OK", "ESP_ERR_INVALID_STATE"}
             THEN [timed EXCEPT !.ret = svc]
             ELSE LET counted == [timed EXCEPT !.ninst = (numinstances + 1) % 256] IN
                  IF HasFeature(cfg.features, SOFTSERIAL_USE_TX) /\ txc # "ESP_OK"
                  THEN [counted EXCEPT !.ret = txc]
                  ELSE IF ~HasFeature(cfg.features, SOFTSERIAL_USE_RX) THEN counted
                  ELSE IF rxc # "ESP_OK" THEN [counted EXCEPT !.ret = rxc]
                  ELSE IF add # "ESP_OK" THEN [counted EXCEPT !.ret = add]
                  ELSE [counted EXCEPT !.hs = handlers \cup {cfg.rx_pin}]

SoftserialInit ==
    /\ ipc = "idle"
    /\ \E f \in Features, b \in Bauds, rx \in Pins, tx \in Pins, en \in Pins,
          pl \in Platforms :
        LET cfg == [features |-> f, baudrate |-> b, rx_pin |-> rx, tx_pin |-> tx,
                    rs485_pin |-> en]
            o == InitOutcome(cfg, pl[1], pl[2], pl[3], pl[4])
        IN  /\ icfg' = cfg
            /\ iret' = o.ret
            /\ used_pins' = o.used
            /\ numinstances' = o.ninst
            /\ bit_time' = o.bt
            /\ handlers' = o.hs
            /\ owners' = [p \in Pins |->
                            IF o.ret = "ESP_OK" /\ p \in TxMask(cfg) \cup RxMask(cfg)
                            THEN owners[p] + 1 ELSE owners[p]]
    /\ used0' = used_pins
    /\ ninst0' = numinstances
    /\ ipc' = "done"
    /\ UNCHANGED <<ringVars, isrVars, envVars, histVars, taskVars, wireVars>>

\* softserial_init has returned.
InitReturn ==
    /\ ipc = "done"
    /\ ipc' = "idle"
    /\ icfg' = NoCfg /\ iret' = "none" /\ bit_time' = 0
    /\ used0' = {} /\ ninst0' = 0
    /\ UNCHANGED <<used_pins, numinstances, handlers, owners>>
    /\ UNCHANGED <<ringVars, isrVars, envVars, histVars, taskVars, wireVars>>

\* The registry before any softserial_init (lines 15 and 17).
PinsIdle ==
    /\ used_pins = {} /\ numinstances = 0 /\ handlers = {}
    /\ ipc = "idle" /\ icfg = NoCfg /\ iret = "none" /\ bit_time = 0
    /\ used0 = {} /\ ninst0 = 0 /\ owners = [p \in Pins |-> 0]

\* ------------------------------------------------------------ the wire
\* A transmitting instance (softserial_putchar / softserial_puts in its task)
\* whose TX pin is wired to the RX pin of a receiving instance (softserial_isr,
\* split at its pin accesses, delays and clock reads).  Both run at the same
\* bit_time and read the same microsecond clock.  A busy-wait loop reads the
\* clock far more often than it ticks: the clock advances only while every
\* running function is inside a wait that is not over yet.

\* Instances on the wire: <<features, event_group, rx_event>>.
WireConfigs ==
    { <<SOFTSERIAL_USE_RX + SOFTSERIAL_USE_TX, TRUE, 1>>,
      <<SOFTSERIAL_USE_RX + SOFTSERIAL_USE_TX + SOFTSERIAL_USE_RS485, TRUE, 1>>,
      <<SOFTSERIAL_USE_RX + SOFTSERIAL_USE_TX, FALSE, 1>>,
      <<SOFTSERIAL_USE_RX + SOFTSERIAL_USE_TX, TRUE, 0>> }
\* Baud rates on the wire: bit_time 2 and 3.
WireBauds == {500000}
LoopBauds == {500000, 333333}
\* Arguments of softserial_putchar and softserial_puts (zero-terminated).
TxBytes == {0, LF}
TxStrings == { <<65, LF, 0>>, <<0>>, <<66, 0, 67>> }
\* Answers of gpio_set_level.
GpioResults == IF faulty THEN {"ESP_OK", "ESP_ERR_INVALID_ARG"} ELSE {"ESP_OK"}
\* Clock values at which the task makes its call: no wrap-around during the
\* call, a wrap-around in the middle of it, a wrap-around in the first wait.
WireStarts == {0, TMAX \div 2, TMAX}
\* <<instance, build wraps overflowing sums>>
WireSetups ==
    { <<c, w>> \in WireConfigs \X BOOLEAN :
        w \/ HasFeature(c[1], SOFTSERIAL_USE_RS485) \/ c[3] = 0 }

\* The level read on the receiver's RX pin.
RxLevel == gpio[icfg.tx_pin]

\* chbit(data, 1 << i)
chbit(b, i) == IF (b \div (2 ^ i)) % 2 # 0 THEN 1 ELSE 0

\* softserial_isr, lines 64-69: the wait before sample k-1 is left when the
\* masked clock is no longer below start_time + bit_time * k (uint64_t, the
\* sum cannot overflow) or is seen below start_time.
IsrWaitOver(k) == ~(now < jstart + bit_time * k) \/ now < jstart

\* softserial_putchar, lines 247-252 and 260-265: the same wait on an int64_t
\* start_time.
TxWaitOver(k) == ~(now < tstart + bit_time * k) \/ now < tstart

\* start_time + bit_time * k exceeds the largest int64_t: signed overflow.  A
\* build that wraps the sum compares the clock with a negative number and
\* leaves the wait at once; a build that assumes no overflow waits for the
\* escape.
TxSumOverflows(k) == tstart + bit_time * k > TMAX
TxWaitLeft(k) == (sumwraps /\ TxSumOverflows(k)) \/ TxWaitOver(k)

\* The function is inside a wait or delay that is not over.
TxWaiting ==
    \/ tpc = "bit" /\ ~TxWaitLeft(ti + 1)
    \/ tpc = "stop" /\ ~TxWaitLeft(9)
    \/ tpc = "guard" /\ tdelay > 0
IsrWaiting ==
    \/ jpc \in {"half", "stopbit"} /\ jdelay > 0
    \/ jpc = "bit" /\ ~IsrWaitOver(ji + 1)
\* The function has a step to take at the current clock value.
TxReady == tpc # "idle" /\ ~TxWaiting
IsrReady == (jpc # "off" /\ ~IsrWaiting) \/ (jpc = "off" /\ pending)

\* One microsecond-clock tick (esp_timer_get_time masked with TMAX) and one
\* tick of the running os_delay_us calls.
Tick ==
    /\ TxWaiting \/ IsrWaiting
    /\ ~TxReady /\ ~IsrReady
    /\ now' = (now + 1) % (TMAX + 1)
    /\ tdelay' = (IF tdelay > 0 THEN tdelay - 1 ELSE 0)
    /\ jdelay' = (IF jdelay > 0 THEN jdelay - 1 ELSE 0)
    /\ tguard' = (IF tpc = "guard" THEN tguard + 1 ELSE tguard)
    /\ UNCHANGED <<gpio, gpio_failed, top, tpc, tstr, tk, tch, ti, tstart, pret,
                   tret, twrites, tmark, sent, tcalls, sumwraps, faulty>>
    /\ UNCHANGED <<pending, glitches, jpc, ji, jstart, jdata, jlog>>
    /\ UNCHANGED <<ringVars, isrVars, envVars, histVars, taskVars, pinVars>>

\* A noise spike on the idle line: a falling edge that is over before the ISR
\* reads the pin.  The edge is latched only while the RX interrupt is armed.
Glitch ==
    /\ glitches > 0
    /\ RxLevel = 1 /\ intr_type = "NEGEDGE" /\ ~pending
    /\ pending' = TRUE
    /\ glitches' = glitches - 1
    /\ UNCHANGED <<jpc, ji, jstart, jdata, jdelay, jlog, now, txVars>>
    /\ UNCHANGED <<ringVars, isrVars, envVars, histVars, taskVars, pinVars>>

\* ---- transmitter
\* gpio_set_level(pin, level) answering r.  A falling edge on the TX pin is
\* latched by the receiver while its RX interrupt is armed.
GpioSetLevel(pin, level, r) ==
    /\ twrites' = Append(twrites, <<pin, level, r>>)
    /\ gpio' = (IF r = "ESP_OK" THEN [gpio EXCEPT ![pin] = level] ELSE gpio)
    /\ gpio_failed' = (gpio_failed \/ r # "ESP_OK")
    /\ pending' = (pending \/ (/\ r = "ESP_OK" /\ pin = icfg.tx_pin
                               /\ gpio[pin] = 1 /\ level = 0
                               /\ intr_type = "NEGEDGE"))

\* Mutant: the answer of gpio_set_level is ignored until the function ends.
ReturnOnError_Ignored(r, p) ==
    /\ tpc' = p
    /\ pret' = (IF r = "ESP_OK" THEN pret ELSE r)

\* if (ESP_OK != ret) return ret; else go on at position p.
ReturnOnError(r, p) ==
    IF r = "ESP_OK"
    THEN tpc' = p /\ UNCHANGED pret
    ELSE tpc' = "pret" /\ pret' = r

\* Everything a transmitter step leaves alone besides its own variables.
txFrame == <<now, sumwraps, faulty, glitches, jpc, ji, jstart, jdata, jdelay, jlog,
             ringVars, isrVars, envVars, histVars, taskVars, pinVars>>

\* softserial_putchar, line 231: entry, start_time is taken.
PutcharEntry(b) ==
    /\ tch' = b
    /\ tstart' = now
    /\ ti' = 0
    /\ tmark' = Len(twrites)
    /\ tguard' = 0
    /\ tpc' = (IF HasFeature(icfg.features, SOFTSERIAL_USE_RS485)
                THEN "enable" ELSE "start")

\* The task calls softserial_putchar(s, b) with b from bytes.
CallPutcharOf(bytes) ==
    /\ tpc = "idle" /\ tcalls > 0
    /\ tcalls' = tcalls - 1
    /\ top' = "putchar"
    /\ \E b \in bytes : PutcharEntry(b)
    /\ UNCHANGED <<gpio, gpio_failed, tstr, tk, tdelay, pret, tret, twrites, sent,
                   pending, txFrame>>

CallPutchar == CallPutcharOf(TxBytes)
CallPutcharAny == CallPutcharOf(0..255)

\* The task calls softserial_puts(s, str).
CallPuts ==
    /\ tpc = "idle" /\ tcalls > 0
    /\ tcalls' = tcalls - 1
    /\ top' = "puts"
    /\ \E str \in TxStrings : tstr' = str
    /\ tk' = 1
    /\ tpc' = "puts"
    /\ UNCHANGED <<gpio, gpio_failed, tch, ti, tstart, tdelay, pret, tret, twrites,
                   tmark, sent, tguard, pending, txFrame>>

\* softserial_puts, lines 286-287 and 292: while (*str) putchar(s, *(str++)).
PutsLoop ==
    /\ tpc = "puts"
    /\ IF tstr[tk] = 0
       THEN /\ tret' = "ESP_OK"
            /\ tpc' = "done"
            /\ UNCHANGED <<tk, tch, tstart, ti, tmark, tguard>>
       ELSE /\ PutcharEntry(tstr[tk])
            /\ tk' = tk + 1
            /\ UNCHANGED tret
    /\ UNCHANGED <<gpio, gpio_failed, top, tstr, tdelay, pret, twrites, sent, tcalls,
                   pending, txFrame>>

\* softserial_putchar, lines 233-239: TX enable.
TxEnable ==
    /\ tpc = "enable"
    /\ \E r \in GpioResults :
        /\ GpioSetLevel(icfg.rs485_pin, 1, r)
        /\ ReturnOnError(r, "start")
    /\ UNCHANGED <<top, tstr, tk, tch, ti, tstart, tdelay, tret, tmark, sent,
                   tcalls, tguard, txFrame>>

\* softserial_putchar, lines 242-245: start bit.
TxStartBit ==
    /\ tpc = "start"
    /\ \E r \in GpioResults :
        /\ GpioSetLevel(icfg.tx_pin, 0, r)
        /\ ReturnOnError(r, "bit")
    /\ UNCHANGED <<top, tstr, tk, tch, ti, tstart, tdelay, tret, tmark, sent,
                   tcalls, tguard, txFrame>>

\* softserial_putchar, lines 246-257: wait for data bit i, then drive it.
TxDataBit ==
    /\ tpc = "bit"
    /\ TxWaitLeft(ti + 1)
    /\ \E r \in GpioResults :
        /\ GpioSetLevel(icfg.tx_pin, chbit(tch, ti), r)
        /\ ReturnOnError(r, IF ti = 7 THEN "stop" ELSE "bit")
        /\ ti' = (IF r = "ESP_OK" THEN ti + 1 ELSE ti)
    /\ UNCHANGED <<top, tstr, tk, tch, tstart, tdelay, tret, tmark, sent,
                   tcalls, tguard, txFrame>>

\* softserial_putchar, lines 260-272: wait for the stop bit, drive it, start
\* the delay of 6 bit times.
TxStopBit ==
    /\ tpc = "stop"
    /\ TxWaitLeft(9)
    /\ \E r \in GpioResults :
        /\ GpioSetLevel(icfg.tx_pin, 1, r)
        /\ ReturnOnError(r, "guard")
        /\ tdelay' = (IF r = "ESP_OK" THEN bit_time * 6 ELSE tdelay)
    /\ UNCHANGED <<top, tstr, tk, tch, ti, tstart, tret, tmark, sent,
                   tcalls, tguard, txFrame>>

\* Mutant: putchar returns after the delay and leaves the direction pin set.
TxGuardDone_KeepsEnable ==
    /\ tpc = "guard"
    /\ tdelay = 0
    /\ tpc' = "pret" /\ pret' = "ESP_OK"
    /\ UNCHANGED <<gpio, gpio_failed, top, tstr, tk, tch, ti, tstart, tdelay, tret,
                   twrites, tmark, sent, tcalls, tguard, pending, txFrame>>

\* softserial_putchar, lines 272-274 and 281: the delay is over.
TxGuardDone ==
    /\ tpc = "guard"
    /\ tdelay = 0
    /\ IF HasFeature(icfg.features, SOFTSERIAL_USE_RS485)
       THEN tpc' = "disable" /\ UNCHANGED pret
       ELSE tpc' = "pret" /\ pret' = "ESP_OK"
    /\ UNCHANGED <<gpio, gpio_failed, top, tstr, tk, tch, ti, tstart, tdelay, tret,
                   twrites, tmark, sent, tcalls, tguard, pending, txFrame>>

\* softserial_putchar, lines 274-281: TX disable and return.
TxDisable ==
    /\ tpc = "disable"
    /\ \E r \in GpioResults :
        /\ GpioSetLevel(icfg.rs485_pin, 0, r)
        /\ pret' = r
        /\ tpc' = "pret"
    /\ UNCHANGED <<top, tstr, tk, tch, ti, tstart, tdelay, tret, tmark, sent,
                   tcalls, tguard, txFrame>>

\* softserial_putchar has returned pret: to the task, or to softserial_puts
\* (lines 287-290).
PutcharReturn ==
    /\ tpc = "pret"
    /\ sent' = (IF pret = "ESP_OK" THEN Append(sent, tch) ELSE sent)
    /\ IF top = "putchar" \/ pret # "ESP_OK"
       THEN tret' = pret /\ tpc' = "done"
       ELSE tpc' = "puts" /\ UNCHANGED tret
    /\ UNCHANGED <<gpio, gpio_failed, top, tstr, tk, tch, ti, tstart, tdelay, pret,
                   twrites, tmark, tcalls, tguard, pending, txFrame>>

\* The task has the result; the locals of the call die.
TxReturn ==
    /\ tpc = "done"
    /\ tpc' = "idle"
    /\ top' = "none" /\ tstr' = <<>> /\ tk' = 0 /\ tch' = 0 /\ ti' = 0
    /\ tstart' = 0 /\ pret' = "none" /\ tret' = "none" /\ twrites' = <<>>
    /\ tmark' = 0 /\ sent' = <<>> /\ tguard' = 0
    /\ UNCHANGED <<gpio, gpio_failed, tdelay, tcalls, pending, txFrame>>

PutcharStep ==
    \/ TxEnable \/ TxStartBit \/ TxDataBit \/ TxStopBit
    \/ TxGuardDone \/ TxDisable \/ PutcharReturn \/ TxReturn

TxStep == PutsLoop \/ PutcharStep

\* ---- receiver
\* Everything a receiver step leaves alone besides its own variables.
rxFrame == <<now, glitches, txVars, envVars, taskVars, pinVars>>

\* The GPIO ISR service calls softserial_isr for the latched edge.
IsrEnter ==
    /\ jpc = "off" /\ pending
    /\ pending' = FALSE
    /\ jpc' = "disable"
    /\ jlog' = <<>>
    /\ UNCHANGED <<ji, jstart, jdata, jdelay, ringVars, isrVars, histVars, rxFrame>>

\* softserial_isr, line 50.
IsrDisable ==
    /\ jpc = "disable"
    /\ intr_type' = "DISABLE"
    /\ jlog' = Append(jlog, "disable")
    /\ jpc' = "level"
    /\ UNCHANGED <<pending, ji, jstart, jdata, jdelay, event_group, rx_event,
                   event_bits, ringVars, histVars, rxFrame>>

\* Mutant: the noise exit returns without re-arming the interrupt.
IsrLevel_NoiseReturns ==
    /\ jpc = "level"
    /\ IF RxLevel # 0
       THEN jpc' = "off" /\ UNCHANGED jdelay
       ELSE jpc' = "half" /\ jdelay' = bit_time \div 2
    /\ UNCHANGED <<pending, ji, jstart, jdata, jlog, ringVars, isrVars, histVars,
                   rxFrame>>

\* softserial_isr, lines 53-57: a high pin is noise, a low pin a start bit
\* whose first half is waited for.
IsrLevel ==
    /\ jpc = "level"
    /\ IF RxLevel # 0
       THEN jpc' = "rearm" /\ UNCHANGED jdelay
       ELSE jpc' = "half" /\ jdelay' = bit_time \div 2
    /\ UNCHANGED <<pending, ji, jstart, jdata, jlog, ringVars, isrVars, histVars,
                   rxFrame>>

\* softserial_isr, lines 60-62: the delay is over, start_time is taken.
IsrStartTime ==
    /\ jpc = "half"
    /\ jdelay = 0
    /\ jstart' = now
    /\ ji' = 0
    /\ jdata' = 0
    /\ jpc' = "bit"
    /\ UNCHANGED <<pending, jdelay, jlog, ringVars, isrVars, histVars, rxFrame>>

\* Mutant: the sampled bits are shifted in from the low end.
IsrSample_ShiftsLeft ==
    /\ jpc = "bit"
    /\ IsrWaitOver(ji + 1)
    /\ jdata' = ((jdata * 2) % 256) + (IF RxLevel # 0 THEN 1 ELSE 0)
    /\ IF ji = 7
       THEN jpc' = "push" /\ UNCHANGED ji
       ELSE jpc' = "bit" /\ ji' = ji + 1
    /\ UNCHANGED <<pending, jstart, jdelay, jlog, ringVars, isrVars, histVars,
                   rxFrame>>

\* softserial_isr, lines 63-75: wait for bit i, shift, read the pin.
IsrSample ==
    /\ jpc = "bit"
    /\ IsrWaitOver(ji + 1)
    /\ jdata' = (jdata \div 2) + (IF RxLevel # 0 THEN 128 ELSE 0)
    /\ IF ji = 7
       THEN jpc' = "push" /\ UNCHANGED ji
       ELSE jpc' = "bit" /\ ji' = ji + 1
    /\ UNCHANGED <<pending, jstart, jdelay, jlog, ringVars, isrVars, histVars,
                   rxFrame>>

\* softserial_isr, lines 76-87: the push attempt, then the stop-bit delay.
IsrStore ==
    /\ jpc = "push"
    /\ IsrPush(jdata)
    /\ jlog' = Append(jlog, "push")
    /\ jdelay' = bit_time \div 2
    /\ jpc' = "stopbit"
    /\ UNCHANGED <<pending, ji, jstart, jdata, isrVars, rxFrame>>

\* softserial_isr, lines 88-97: the delay is over, the event group is signalled.
IsrSignal ==
    /\ jpc = "stopbit"
    /\ jdelay = 0
    /\ IsrNotify(jdata)
    /\ jlog' = (IF event_bits' # event_bits THEN Append(jlog, "signal") ELSE jlog)
    /\ jpc' = "rearm"
    /\ UNCHANGED <<pending, ji, jstart, jdata, jdelay, event_group, rx_event,
                   intr_type, ringVars, histVars, rxFrame>>

\* softserial_isr, line 101, and the return.
IsrRearm ==
    /\ jpc = "rearm"
    /\ intr_type' = "NEGEDGE"
    /\ jlog' = Append(jlog, "rearm")
    /\ jpc' = "off"
    /\ UNCHANGED <<pending, ji, jstart, jdata, jdelay, event_group, rx_event,
                   event_bits, ringVars, histVars, rxFrame>>

IsrStep ==
    \/ IsrEnter \/ IsrDisable \/ IsrLevel \/ IsrStartTime \/ IsrSample
    \/ IsrStore \/ IsrSignal \/ IsrRearm

\* The wire before anything was sent: TX idles high, RS485 enable is low.
WireQuiet(t, calls, spikes, cfg, wraps, faults) ==
    /\ now = t
    /\ sumwraps = wraps /\ faulty = faults
    /\ gpio = [p \in Pins |-> IF p = cfg.tx_pin THEN 1 ELSE 0]
    /\ gpio_failed = FALSE
    /\ top = "none" /\ tpc = "idle" /\ tstr = <<>> /\ tk = 0 /\ tch = 0
    /\ ti = 0 /\ tstart = 0 /\ tdelay = 0 /\ pret = "none" /\ tret = "none"
    /\ twrites = <<>> /\ tmark = 0 /\ sent = <<>> /\ tcalls = calls
    /\ tguard = 0
    /\ pending = FALSE /\ glitches = spikes
    /\ jpc = "off" /\ ji = 0 /\ jstart = 0 /\ jdata = 0 /\ jdelay = 0
    /\ jlog = <<>>

\* No transmitter, no noise: the wire of the other specifications.
WireIdle == WireQuiet(0, 0, 0, NoCfg, TRUE, FALSE)

\* ------------------------------------------------------------ specifications
\* The state after h0 + fill frames were received and h0 of them consumed.
RingState(ln, h0, fill, frames) ==
    /\ line = ln
    /\ data = [i \in 0..(N - 1) |-> IF i < h0 + fill THEN ByteAt(ln, i) ELSE 0]
    /\ head = h0
    /\ tail = h0 + fill
    /\ overrun = 0
    /\ event_group = TRUE /\ rx_event = 1
    /\ intr_type = "NEGEDGE"
    /\ event_bits = (IF \E i \in 0..(h0 + fill - 1) : ByteAt(ln, i) = LF THEN 1 ELSE 0)
    /\ wire = h0 + fill
    /\ rxleft = frames
    /\ stored = [i \in 1..(h0 + fill) |-> ByteAt(ln, i - 1)]
    /\ popped = [i \in 1..h0 |-> ByteAt(ln, i - 1)]
    /\ ovfPending = FALSE /\ ovfNew = FALSE
    /\ op = "none" /\ pc = "idle"
    /\ maxlen = 0 /\ len = 0 /\ out = <<>> /\ d = 0 /\ ret = 0 /\ rv = 0
    /\ npop0 = 0 /\ nst0 = 0 /\ ovf0 = FALSE /\ prevErr = FALSE
    /\ PinsIdle
    /\ WireIdle

\* <<h0, fill>>: the zero-initialised buffer, an empty buffer whose indices
\* are about to wrap, and a buffer about to run full.
Starts == { <<0, 0>>, <<N - Gap, 0>>, <<0, N - Gap>> }

Init == \E ln \in Lines, st \in Starts : RingState(ln, st[1], st[2], MaxRx)

Next ==
    \/ Isr
    \/ CallGetc \/ CallAvailable \/ CallOverrun \/ CallRead \/ CallReadline
    \/ GetcChk \/ GetcLoad \/ GetcAdv \/ Avail \/ OvrRead \/ OvrClear
    \/ Return

Spec == Init /\ [][Next]_vars

\* Sequences of pushes, pops, available and overrun calls from the empty
\* zero-initialised buffer: the ISR runs only between calls.
InitRing == \E ln \in Lines : RingState(ln, 0, 0, N - 1 + RingExtra)

IsrBetweenCalls == pc = "idle" /\ Isr

NextRing ==
    \/ IsrBetweenCalls
    \/ CallGetc \/ CallAvailable \/ CallOverrun
    \/ GetcChk \/ GetcLoad \/ GetcAdv \/ Avail \/ OvrRead \/ OvrClear
    \/ Return

SpecRing == InitRing /\ [][NextRing]_vars

\* Sequences of softserial_init calls on the process-wide registry.
InitPins == RingState(<<LF>>, 0, 0, 0)

NextPins == SoftserialInit \/ InitReturn

SpecPins == InitPins /\ [][NextPins]_vars

\* The instance on both ends of the wire, as softserial_init leaves it.
WireInstance(c, baud) ==
    [features |-> c[1], baudrate |-> baud, rx_pin |-> 4, tx_pin |-> 2,
     rs485_pin |-> 5]

\* Empty ring, idle task, the instance initialised, the wire quiet at clock t.
WireState(c, baud, t, calls, spikes, wraps, faults) ==
    LET cfg == WireInstance(c, baud) IN
    /\ data = [i \in 0..(N - 1) |-> 0]
    /\ head = 0 /\ tail = 0 /\ overrun = 0
    /\ event_group = c[2] /\ rx_event = c[3]
    /\ intr_type = "NEGEDGE"
    /\ event_bits = 0
    /\ line = <<LF>> /\ wire = 0 /\ rxleft = 0
    /\ stored = <<>> /\ popped = <<>>
    /\ ovfPending = FALSE /\ ovfNew = FALSE
    /\ op = "none" /\ pc = "idle"
    /\ maxlen = 0 /\ len = 0 /\ out = <<>> /\ d = 0 /\ ret = 0 /\ rv = 0
    /\ npop0 = 0 /\ nst0 = 0 /\ ovf0 = FALSE /\ prevErr = FALSE
    /\ used_pins = TxMask(cfg) \cup RxMask(cfg)
    /\ numinstances = 1 /\ handlers = {cfg.rx_pin}
    /\ ipc = "idle" /\ icfg = cfg /\ iret = "none"
    /\ bit_time = BitTime(baud)
    /\ used0 = {} /\ ninst0 = 0
    /\ owners = [p \in Pins |-> IF p \in TxMask(cfg) \cup RxMask(cfg) THEN 1 ELSE 0]
    /\ WireQuiet(t, calls, spikes, cfg, wraps, faults)

\* One instance sends, one receives, on a line with noise and pin writes that
\* may fail.
InitWire ==
    \E su \in WireSetups, b \in WireBauds, t \in WireStarts :
        WireState(su[1], b, t, TxCalls, MaxGlitch, su[2], TRUE)

NextWire == CallPutchar \/ CallPuts \/ TxStep \/ IsrStep \/ Tick \/ Glitch

SpecWire == InitWire /\ [][NextWire]_vars

\* The call starts at every clock value, in either build.  The clock keeps
\* ticking and both processors keep executing.
InitClock ==
    \E c \in WireConfigs, b \in WireBauds, t \in 0..TMAX, w \in BOOLEAN :
        /\ HasFeature(c[1], SOFTSERIAL_USE_RS485)
        /\ WireState(c, b, t, TxCalls, 0, w, TRUE)

NextClock == CallPutchar \/ CallPuts \/ TxStep \/ IsrStep \/ Tick

SpecClock ==
    /\ InitClock /\ [][NextClock]_vars
    /\ WF_vars(Tick) /\ WF_vars(TxStep) /\ WF_vars(IsrStep)

\* softserial_putchar of every byte into a receiver, on a line without noise,
\* the clock starting at 0.
InitLoop ==
    \E c \in {w \in WireConfigs : w[2] /\ w[3] # 0}, b \in LoopBauds :
        WireState(c, b, 0, TxCalls, 0, TRUE, TRUE)

NextLoop == CallPutcharAny \/ PutcharStep \/ IsrStep \/ Tick

SpecLoop == InitLoop /\ [][NextLoop]_vars

\* ------------------------------------------------------------ claims
Reads == {"read", "readline"}
IsPrefix(a, b) == Len(a) <= Len(b) /\ \A i \in 1..Len(a) : a[i] = b[i]
Min(a, b) == IF a < b THEN a ELSE b

\* C1: under every interleaving of the ISR with the task, the bytes getc has
\* returned from a non-empty buffer are a prefix of the bytes the ISR stored,
\* and the bytes still queued are exactly the rest of them, in order.
C1_GetcPrefixOfStored ==
    /\ IsPrefix(popped, stored)
    /\ Queue = SubSeq(stored, Len(popped) + 1, Len(stored))

\* A getc call returned a byte although the ISR stored another one during it.
C1_Witness ==
    /\ pc = "done" /\ op = "getc"
    /\ Len(popped) = npop0 + 1 /\ rv = popped[Len(popped)]
    /\ Len(stored) > nst0

\* C2: from the empty buffer the first N-1 pushes are all stored and leave
\* overrun clear; every push attempted when (tail+1) mod N = head sets overrun
\* and leaves head, tail and all stored bytes unchanged (the new byte is the
\* one dropped), every other push stores the decoded byte at tail.
C2_FirstPushesStored ==
    (Len(popped) = 0 /\ wire <= N - 1) =>
        /\ overrun = 0
        /\ head = 0 /\ tail = wire
        /\ Queue = [i \in 1..wire |-> ByteAt(line, i - 1)]

C2_PushStep ==
    (wire' = wire + 1) =>
        IF (tail + 1) % N = head
        THEN /\ overrun' = 1
             /\ head' = head /\ tail' = tail /\ data' = data
             /\ Len(Queue') = N - 1 /\ Queue' = Queue
        ELSE /\ overrun' = overrun
             /\ head' = head /\ tail' = (tail + 1) % N
             /\ Queue' = Append(Queue, ByteAt(line, wire))

C2_PushUntilFull == [](C2_FirstPushesStored) /\ [][C2_PushStep]_vars

\* The 64th push into the never-read buffer was rejected.
C2_Witness ==
    /\ Len(popped) = 0 /\ wire = N
    /\ overrun = 1 /\ Len(stored) = N - 1 /\ Available(head, tail) = N - 1

\* What the finished read / readline call returned, removed and found queued.
Returned == SubSeq(out, 1, rv)
Consumed == SubSeq(popped, npop0 + 1, Len(popped))
QueuedAtCall == SubSeq(stored, npop0 + 1, nst0)
ReadDone == pc = "done" /\ op \in Reads /\ rv >= 0

\* Position of the first line feed in a sequence, 0 when it has none.
FirstLf(q) ==
    IF \E i \in 1..Len(q) : q[i] = LF
    THEN CHOOSE i \in 1..Len(q) : q[i] = LF /\ \A j \in 1..(i - 1) : q[j] # LF
    ELSE 0

\* C3: read and readline, called with max_len >= 2 and overrun clear, remove
\* from the ring only the bytes they return, plus for readline the line feed
\* that ended the line; every other byte stays queued.
C3_ReadRemovesOnlyReturned ==
    (ReadDone /\ maxlen >= 2) =>
        \/ Consumed = Returned
        \/ op = "readline" /\ Consumed = Append(Returned, LF)

\* C4: readline, taking the dequeue path on a buffer whose queued bytes hold a
\* line feed with max_len larger than the line before it, returns exactly the
\* bytes before the first line feed, removes that line feed without returning
\* it and leaves every later byte queued in order.
C4_ReadlineStopsAtLf ==
    LET p == FirstLf(QueuedAtCall) IN
    (ReadDone /\ op = "readline" /\ p > 0 /\ maxlen >= p) =>
        /\ rv = p - 1
        /\ Returned = SubSeq(QueuedAtCall, 1, p - 1)
        /\ out = Append(Returned, 0)
        /\ Consumed = SubSeq(QueuedAtCall, 1, p)
        /\ Queue = SubSeq(stored, npop0 + p + 1, Len(stored))

\* The example: "AB\nCD..." queued, readline returns "AB" and "CD" is next.
C4_Witness ==
    /\ ReadDone /\ op = "readline" /\ maxlen = 3
    /\ Len(QueuedAtCall) >= 5
    /\ SubSeq(QueuedAtCall, 1, 5) = <<65, 66, LF, 67, 68>>
    /\ rv = 2 /\ out = <<65, 66, 0>>
    /\ Len(Queue) >= 2
    /\ SubSeq(Queue, 1, 2) = <<67, 68>>

\* C5: a read / readline call that finds the overrun flag set returns -1,
\* resets the flag and neither removes a queued byte nor writes one to the
\* caller; the call after it, when it finds the flag clear, returns the oldest
\* queued bytes in order, as many as max_len and (readline) a line feed allow.
C5_ErrorCallLeavesQueue ==
    (pc = "done" /\ op \in Reads /\ ret # 0) =>
        /\ rv = -1
        /\ Len(popped) = npop0
        /\ out = <<>>

C5_ErrorStep ==
    (op \in Reads /\ pc \in {"ovr_read", "ovr_clear"} /\ pc' # pc) =>
        /\ head' = head /\ tail' = tail /\ data' = data
        /\ (pc = "ovr_read" /\ overrun # 0) => pc' = "ovr_clear"
        /\ (pc = "ovr_clear") => (overrun' = 0 /\ rv' = -1 /\ pc' = "done")

C5_NextCallReads ==
    LET p == FirstLf(QueuedAtCall)
        n == Len(QueuedAtCall)
        upToLf == IF op = "readline" /\ p > 0 THEN p - 1 ELSE n
        want == IF maxlen = 0 THEN upToLf ELSE Min(upToLf, maxlen - 1)
    IN  (pc = "done" /\ op \in Reads /\ prevErr /\ ret = 0) =>
            /\ rv >= want
            /\ Returned = SubSeq(stored, npop0 + 1, npop0 + rv)
            /\ out = Append(Returned, 0)

C5_OverrunErrorThenData ==
    [](C5_ErrorCallLeavesQueue /\ C5_NextCallReads) /\ [][C5_ErrorStep]_vars

\* The call after an overrun error returned bytes that were queued before it.
C5_Witness ==
    /\ pc = "done" /\ op \in Reads /\ prevErr /\ ret = 0
    /\ rv >= 2 /\ Len(QueuedAtCall) >= N - 2

\* C6: in a sequence of pushes, pops and softserial_overrun calls, a call
\* returns 1 exactly when a push was rejected since the previous call read the
\* flag (the first call after an overflow), and 0 otherwise.
C6_OverrunReportedOnce ==
    (pc = "done" /\ op = "overrun") =>
        /\ rv \in {0, 1}
        /\ (rv = 1) <=> ovf0

\* A byte was dropped earlier, its report was taken, and this call returns 0.
C6_Witness ==
    /\ pc = "done" /\ op = "overrun" /\ rv = 0
    /\ Len(stored) < wire /\ overrun = 0

\* C7: no overflow event is erased: an overflow that happened after the flag
\* was last read as set is still recorded in the flag, under every
\* interleaving of the ISR with softserial_overrun.
C7_NoOverflowErased == ovfPending => overrun = 1

\* C8: head and tail stay in 0..N-1, available() is the number of accepted
\* pushes minus the number of pops, lies in 0..N-1 and is 0 exactly when
\* head = tail; softserial_available returns that number.
C8_AvailableCounts ==
    /\ head \in 0..(N - 1) /\ tail \in 0..(N - 1)
    /\ Available(head, tail) \in 0..(N - 1)
    /\ (Available(head, tail) = 0) <=> (head = tail)
    /\ Available(head, tail) = Len(stored) - Len(popped)
    /\ (pc = "done" /\ op = "available") => rv = Len(stored) - Len(popped)

\* available() returned a positive count with tail wrapped around below head.
C8_Witness ==
    /\ pc = "done" /\ op = "available"
    /\ tail < head /\ rv = tail + N - head /\ rv > 0
    /\ Len(stored) > N

\* The pins an init call asks for: RX, TX and, with RS485, direction-enable.
Requested(cfg) == TxMask(cfg) \cup RxMask(cfg)

\* C9: no pin belongs to two successfully initialised instances, and an init
\* call that asks for a pin already in the claimed set fails with
\* ESP_ERR_INVALID_ARG and leaves the claimed set as it was.
C9_PinsClaimedOnce ==
    /\ \A p \in Pins : owners[p] <= 1
    /\ \A p \in Pins : owners[p] = 1 => p \in used_pins
    /\ (ipc = "done" /\ Requested(icfg) \cap used0 # {}) =>
           (iret = "ESP_ERR_INVALID_ARG" /\ used_pins = used0)

\* {TX=2, RX=4} was initialised, then {TX=4, RX=5} is refused; 5 stays free.
C9_Witness ==
    /\ ipc = "done" /\ icfg.tx_pin = 4 /\ icfg.rx_pin = 5
    /\ ~HasFeature(icfg.features, SOFTSERIAL_USE_RS485)
    /\ used0 = {2, 4} /\ owners[2] = 1 /\ owners[4] = 1
    /\ iret = "ESP_ERR_INVALID_ARG" /\ used_pins = {2, 4}

\* C10: softserial_init returns ESP_OK only if the instance's RX pin, TX pin
\* and, with RS485 enabled, direction-enable pin are mutually distinct.
C10_OwnPinsDistinct ==
    (ipc = "done" /\ iret = "ESP_OK") =>
        /\ icfg.rx_pin # icfg.tx_pin
        /\ HasFeature(icfg.features, SOFTSERIAL_USE_RS485) =>
               (icfg.rs485_pin # icfg.tx_pin /\ icfg.rs485_pin # icfg.rx_pin)

\* C11: a softserial_init call that returns an error leaves the claimed-pin
\* set and the instance count at their values before the call.
C11_FailedInitChangesNothing ==
    (ipc = "done" /\ iret # "ESP_OK") =>
        (used_pins = used0 /\ numinstances = ninst0)

\* The value 1000000 / baud rounded by the stated rule, with no width limit.
RoundedBitTime(baud) ==
    LET q == 1000000 \div baud IN
    IF ((100000000 \div baud) - (100 * q)) > 50 THEN q + 1 ELSE q

\* C12: for every baud rate greater than zero that softserial_init accepts,
\* the stored bit_time is floor(1000000 / baud), plus one exactly when
\* floor(100000000 / baud) - 100 * floor(1000000 / baud) exceeds 50, and the
\* 16-bit field holds that value untruncated; 9600 baud gives 104.
C12_BitTimeRounded ==
    (ipc = "done" /\ iret = "ESP_OK" /\ icfg.baudrate > 0) =>
        /\ bit_time = RoundedBitTime(icfg.baudrate)
        /\ icfg.baudrate = 9600 => bit_time = 104

\* The ISR decodes the frame on the wire in this step.
DecodeStep == wire' = wire + 1

\* C14: an overrun does not stop reception.  The step that rejects a push
\* leaves the RX interrupt armed for falling edges, and once a frame was lost
\* (wire > Len(stored)) and the consumer has made room, the next decoded byte
\* is stored and the interrupt armed again, whatever the overrun flag holds.
C14_ReceptionResumes ==
    [][ /\ (DecodeStep /\ stored' = stored) => intr_type' = "NEGEDGE"
        /\ (DecodeStep /\ wire > Len(stored)
                /\ Len(stored) - Len(popped) < N - 1) =>
               /\ stored' = Append(stored, ByteAt(line, wire))
               /\ data'[tail] = ByteAt(line, wire)
               /\ tail' = (tail + 1) % N
               /\ intr_type' = "NEGEDGE" ]_vars

\* A frame was lost, one byte was popped, and the third frame was stored while
\* the overrun flag was still set.
C14_Witness ==
    /\ wire = N + 1 /\ Len(stored) = N /\ Len(popped) >= 1
    /\ overrun = 1 /\ intr_type = "NEGEDGE"
    /\ data[(tail + N - 1) % N] = ByteAt(line, N)

\* C20: read and readline write at most max_len bytes (data and terminating
\* zero) into the caller's buffer and, for max_len >= 1, return a length of at
\* most max_len - 1; with max_len 0 or 1 no data byte is stored.
C20_WritesWithinMaxLen ==
    ReadDone =>
        /\ Len(out) <= maxlen
        /\ maxlen >= 1 => rv <= maxlen - 1
        /\ maxlen <= 1 => rv = 0

\* The clock does not wrap between putchar's entry and the end of its frame.
NoWrapInFrame == tstart + 10 * bit_time <= TMAX

\* C13: round trip.  While the RX pin follows the levels softserial_putchar(b)
\* drives on schedule and the ISR, started by the start edge, samples bit i
\* half a bit period plus (i+1) bit times after it, the byte the ISR pushes
\* is b, for every byte b.
C13_RoundTrip ==
    (top = "putchar" /\ jpc = "stopbit" /\ ~gpio_failed /\ NoWrapInFrame) =>
        /\ jdata = tch
        /\ Len(stored) > 0 /\ stored[Len(stored)] = tch
        /\ data[(tail + N - 1) % N] = tch

\* 0xA5 was sent at bit time 3 and pushed.
C13_Witness ==
    /\ top = "putchar" /\ jpc = "stopbit" /\ ~gpio_failed /\ NoWrapInFrame
    /\ tch = 165 /\ bit_time = 3 /\ stored = <<165>>

\* The bytes of a zero-terminated string.
UpToZero(str) ==
    LET z == CHOOSE i \in 1..Len(str) :
                 str[i] = 0 /\ \A j \in 1..(i - 1) : str[j] # 0
    IN  SubSeq(str, 1, z - 1)

\* The pin writes of one softserial_putchar(b) that meets no error.
FrameWrites(b) ==
    LET ok(pin, level) == <<pin, level, "ESP_OK">>
        frame == <<ok(icfg.tx_pin, 0)>>
                 \o [i \in 1..8 |-> ok(icfg.tx_pin, (b \div (2 ^ (i - 1))) % 2)]
                 \o <<ok(icfg.tx_pin, 1)>>
    IN  IF HasFeature(icfg.features, SOFTSERIAL_USE_RS485)
        THEN <<ok(icfg.rs485_pin, 1)>> \o frame \o <<ok(icfg.rs485_pin, 0)>>
        ELSE frame

RECURSIVE StringWrites(_)
StringWrites(bytes) ==
    IF bytes = <<>> THEN <<>>
    ELSE FrameWrites(Head(bytes)) \o StringWrites(Tail(bytes))

WriteFailed(k) == twrites[k][3] # "ESP_OK"
SomeWriteFailed == \E k \in 1..Len(twrites) : WriteFailed(k)

\* C15: a failed gpio_set_level is the last pin write of the call, putchar
\* returns its error and puts returns the same error with the later bytes
\* unsent; without a failure puts sends every byte before the terminating
\* zero, in order, and returns ESP_OK.
C15_FailureAborts ==
    /\ \A k \in 1..Len(twrites) : WriteFailed(k) => k = Len(twrites)
    /\ (tpc = "pret" /\ SomeWriteFailed) => pret = twrites[Len(twrites)][3]
    /\ (tpc = "done" /\ SomeWriteFailed) =>
           /\ tret = twrites[Len(twrites)][3]
           /\ top = "puts" =>
                  /\ Len(sent) < Len(UpToZero(tstr))
                  /\ IsPrefix(sent, UpToZero(tstr))
                  /\ Len(twrites) <= Len(StringWrites(Append(sent, tch)))
    /\ (tpc = "done" /\ top = "puts" /\ ~SomeWriteFailed) =>
           /\ tret = "ESP_OK"
           /\ sent = UpToZero(tstr)
           /\ twrites = StringWrites(UpToZero(tstr))

\* puts("A\n") failed inside its second byte.
C15_Witness ==
    /\ tpc = "done" /\ top = "puts" /\ tstr = <<65, LF, 0>>
    /\ sent = <<65>> /\ tret = "ESP_ERR_INVALID_ARG"
    /\ Len(twrites) > Len(FrameWrites(65)) + 2

\* No push attempt is logged for the running ISR invocation.
NoPushYet == \A k \in 1..Len(jlog) : jlog[k] # "push"

\* C16: the ISR disables the RX-edge interrupt first and keeps it disabled
\* through the whole decode, so no edge is latched meanwhile and an
\* invocation makes at most one push attempt; every exit re-arms it for
\* falling edges, and the noise exit changes neither the ring buffer nor the
\* notification target.
C16_DecodeBracketed ==
    /\ [](/\ jpc \notin {"off", "disable"} =>
                (intr_type = "DISABLE" /\ jlog[1] = "disable")
          /\ jpc = "off" => intr_type = "NEGEDGE"
          /\ Cardinality({k \in 1..Len(jlog) : jlog[k] = "push"}) <= 1)
    /\ [][ /\ intr_type = "DISABLE" => pending' = pending
           /\ (jpc = "level" /\ RxLevel # 0 /\ jpc' # jpc) => jpc' = "rearm"
           /\ (jpc = "rearm" /\ jpc' # jpc) =>
                  (jpc' = "off" /\ intr_type' = "NEGEDGE")
           /\ (jpc \in {"disable", "level", "rearm"} /\ NoPushYet) =>
                  UNCHANGED <<ringVars, event_group, rx_event, event_bits>> ]_vars

\* 'A' (two falling edges inside its frame) was decoded once and the interrupt
\* re-armed with nothing latched.
C16_Witness ==
    /\ jpc = "off" /\ jlog = <<"disable", "push", "rearm">>
    /\ stored = <<65>> /\ intr_type = "NEGEDGE" /\ ~pending

\* C17: with RS485 enabled and no failing pin write, putchar asserts the
\* direction pin before the start bit, keeps it asserted over start bit, data
\* bits, stop bit and the delay of 6 bit times, and deasserts it before
\* returning; the TX pin is driven low, b0..b7, high and is high at return.
C17_Rs485Brackets ==
    HasFeature(icfg.features, SOFTSERIAL_USE_RS485) =>
        /\ tpc \in {"start", "bit", "stop", "guard", "disable"} =>
               gpio[icfg.rs485_pin] = 1
        /\ tpc = "disable" => tguard = 6 * bit_time
        /\ (tpc = "pret" /\ pret = "ESP_OK") =>
               /\ SubSeq(twrites, tmark + 1, Len(twrites)) = FrameWrites(tch)
               /\ gpio[icfg.tx_pin] = 1
               /\ gpio[icfg.rs485_pin] = 0
               /\ tguard = 6 * bit_time

\* putchar('\n') has returned ESP_OK on an RS485 instance.
C17_Witness ==
    /\ HasFeature(icfg.features, SOFTSERIAL_USE_RS485)
    /\ top = "putchar" /\ tpc = "pret" /\ pret = "ESP_OK" /\ tch = LF
    /\ Len(twrites) = 12 /\ gpio[icfg.rs485_pin] = 0

Signalled == \E k \in 1..Len(jlog) : jlog[k] = "signal"

C19_WaitsEndByClock ==
    /\ [][ /\ (jpc = "bit" /\ (jpc' # "bit" \/ ji' # ji)) =>
                  (now >= jstart + bit_time * (ji + 1) \/ now < jstart)
           /\ (tpc = "bit" /\ (tpc' # "bit" \/ ti' # ti)) =>
                  (now >= tstart + bit_time * (ti + 1) \/ now < tstart)
           /\ (tpc = "stop" /\ tpc' # "stop") =>
                  (now >= tstart + bit_time * 9 \/ now < tstart) ]_vars
    /\ (jpc # "off") ~> (jpc = "off" /\ intr_type = "NEGEDGE")
    /\ (tpc # "idle") ~> (tpc = "done")

\* Every ISR invocation and every putchar / puts call comes to its end, in
\* either build.
WaitsTerminate ==
    /\ (jpc # "off") ~> (jpc = "off" /\ intr_type = "NEGEDGE")
    /\ (tpc # "idle") ~> (tpc = "done")

====
